---------------------------- MODULE Spec2Model ----------------------------
(***************************************************************************)
(* Verification model of the CSPM server core:                             *)
(*   - the retention manager (LogManager.add_log,                          *)
(*     DeploymentManager.add_deployment, TicketManager.create_ticket),     *)
(*   - urgent-issue clustering (LogManager.get_urgent_issue_groups),       *)
(*   - the ensemble scorer and the risk classifier (model.py, and the      *)
(*     first prototype's model_evaluate).                                  *)
(* Every store call of a handler is one atomic step (MongoDB executes a    *)
(* single operation atomically); a handler is the sequence of its steps.   *)
(***************************************************************************)
EXTENDS Integers, Sequences, FiniteSets, TLC

VARIABLES
    store,      \* kind -> set of stored documents [id, user, ts]
    counters,   \* user -> kind -> denormalised count, or Missing
    pc,         \* thread -> the store call its handler executes next
    local,      \* thread -> the handler's local variables
    ncalls,     \* number of handler calls started so far
    inserted,   \* history: the documents inserted, in insertion order
    evictions,  \* history: one entry per document a delete_many removed
    start,      \* history: the state the behaviour started from
    clPhase,    \* clustering: "off", "loop" or "returned"
    clLogs,     \* the logs fetched, sorted by timestamp ascending
    clWindow,   \* time_window_minutes
    clMin,      \* min_group_size
    clI,        \* the index the outer loop is at (1-based)
    clUsed,     \* used: the indices already put in a group
    clGroups,   \* groups: the clusters to return
    clCands,    \* history: every group the outer loop built, dropped ones too
    scPhase,    \* scoring: "off", "input", "done" or "failed"
    scIn,       \* the request: the model signals and features of one log
    scOut,      \* the result the handler returns
    rqPhase,    \* request handler: "off", "idle" or the step it executes next
    rqIn,       \* the request body and the environment it meets
    rqOut,      \* the response of the request handled last
    rqLoads,    \* history: artifact loads (six joblib.load each) so far
    rqCount,    \* requests received so far
    rqScored,   \* history: the request reached score_single_log_corrected
    rqDoc,      \* the document the request inserted: <<>> or <<doc>>
    rqBack      \* from_dict(doc).to_dict() of that document: <<>> or <<doc>>

retentionVars == <<store, counters, pc, local, ncalls, inserted, evictions, start>>
clusterVars == <<clPhase, clLogs, clWindow, clMin, clI, clUsed, clGroups, clCands>>

scoreVars == <<scPhase, scIn, scOut>>

requestVars == <<rqPhase, rqIn, rqOut, rqLoads, rqCount, rqScored, rqDoc, rqBack>>

vars == <<retentionVars, clusterVars, scoreVars, requestVars>>

---------------------------------------------------------------------------
(* Bounds of the model.                                                    *)

\* scaled-down caps (10000 logs, 100 deployments, 100 tickets in the code)
LogCap == 3
DeploymentCap == 2
TicketCap == 2
\* handler calls per behaviour
MaxCalls == 4
\* timestamps are drawn from 1..MaxTs
MaxTs == 4
\* documents already stored for a legacy user
MaxPre == 1

Threads == {1, 2, 3, 4}
Users == {"u1", "u2"}
Kinds == {"log", "deployment", "ticket"}
Timestamps == 1..MaxTs
\* the counter field is not in the user document; no counter goes below -1
Missing == -2

Min(a, b) == IF a <= b THEN a ELSE b
Max(a, b) == IF a >= b THEN a ELSE b

---------------------------------------------------------------------------
(* Retention manager.                                                      *)

Cap(k) ==
    CASE k = "log" -> LogCap
      [] k = "deployment" -> DeploymentCap
      [] k = "ticket" -> TicketCap

\* mutant: the queries do not filter on user_id
UserRecs_AllUsers(k, u) == store[k]

\* collection.find({'user_id': user_id})
UserRecs(k, u) == {r \in store[k] : r.user = u}

\* the possible results of find(...).sort(timestamp, -1).limit(n): the order
\* among equal timestamps is the store's choice
NewestN(recs, n) ==
    {S \in SUBSET recs :
        /\ Cardinality(S) = Min(n, Cardinality(recs))
        /\ \A r \in S : \A q \in recs \ S : r.ts >= q.ts}

\* newest[-1]['timestamp']: the oldest timestamp of the snapshot
Oldest(S) == CHOOSE c \in {r.ts : r \in S} : \A r \in S : c <= r.ts

\* mutant: the filter of delete_many is inclusive ($lte)
ToDelete_Inclusive(recs, cutoff) == {r \in recs : r.ts <= cutoff}

\* the filter of delete_many: {'user_id': user_id, 'timestamp': {'$lt': cutoff}}
ToDelete(recs, cutoff) == {r \in recs : r.ts < cutoff}

\* mutant: the limit test lets one record more through
OverLimit_OffByOne(count, cap) == count > cap + 1

\* result and result.get(count, 0) > cap
OverLimit(count, cap) == count > cap

\* the handler's locals; a local is cleared once the handler reads it no more.
\* result is what the call last made by the thread returned ("none" before
\* it returns) and passed whether that call took the over-the-limit branch;
\* before is what the identity held when the call was made, kept until the
\* call returns without an exception
NoBefore == [recs |-> {}, counter |-> 0]

NoLocal ==
    [user |-> "u1", kind |-> "log", count |-> 0, cutoff |-> 0,
     result |-> "none", passed |-> FALSE, before |-> NoBefore]

\* insert_one(doc.to_dict()): the first store call of the handler
InsertOne(t, u, k, ts) ==
    /\ pc[t] = "idle"
    /\ ncalls < MaxCalls
    /\ LET doc == [id |-> Len(inserted) + MaxPre + 1, user |-> u, ts |-> ts]
       IN /\ store' = [store EXCEPT ![k] = @ \cup {doc}]
          /\ inserted' = Append(inserted, [doc |-> doc, kind |-> k])
          /\ local' = [local EXCEPT ![t] =
                          [NoLocal EXCEPT !.user = u, !.kind = k,
                              !.before = [recs |-> UserRecs(k, u),
                                          counter |-> counters[u][k]]]]
    /\ ncalls' = ncalls + 1
    /\ pc' = [pc EXCEPT ![t] = "find_user"]
    /\ UNCHANGED <<counters, evictions, start>>
    /\ UNCHANGED <<clusterVars, scoreVars, requestVars>>

\* user = db.users.find_one(...); if user and count field not in user
FindUser(t) ==
    /\ pc[t] = "find_user"
    /\ pc' = [pc EXCEPT ![t] =
                 IF counters[local[t].user][local[t].kind] = Missing
                 THEN "count" ELSE "inc"]
    /\ UNCHANGED <<store, counters, local, ncalls, inserted, evictions, start>>
    /\ UNCHANGED <<clusterVars, scoreVars, requestVars>>

\* current_count = collection.count_documents({'user_id': user_id})
CountDocuments(t) ==
    /\ pc[t] = "count"
    /\ local' = [local EXCEPT ![t].count =
                    Cardinality(UserRecs(local[t].kind, local[t].user))]
    /\ pc' = [pc EXCEPT ![t] = "set"]
    /\ UNCHANGED <<store, counters, ncalls, inserted, evictions, start>>
    /\ UNCHANGED <<clusterVars, scoreVars, requestVars>>

\* db.users.update_one(..., {'$set': {count field: current_count}})
SetCount(t) ==
    /\ pc[t] = "set"
    /\ counters' = [counters EXCEPT ![local[t].user][local[t].kind] = local[t].count]
    /\ local' = [local EXCEPT ![t].count = 0]
    /\ pc' = [pc EXCEPT ![t] = "inc"]
    /\ UNCHANGED <<store, ncalls, inserted, evictions, start>>
    /\ UNCHANGED <<clusterVars, scoreVars, requestVars>>

\* the value $inc leaves in the field: a missing field counts as 0
Incremented(c) == IF c = Missing THEN 1 ELSE c + 1

\* result = db.users.find_one_and_update(..., {'$inc': {count field: 1}},
\* return_document=True); then the test of the limit
IncCount(t) ==
    /\ pc[t] = "inc"
    /\ LET u == local[t].user
           k == local[t].kind
           new == Incremented(counters[u][k])
       IN /\ counters' = [counters EXCEPT ![u][k] = new]
          /\ pc' = [pc EXCEPT ![t] =
                       IF OverLimit(new, Cap(k)) THEN "snapshot" ELSE "return"]
          /\ local' = [local EXCEPT ![t].passed = OverLimit(new, Cap(k))]
    /\ UNCHANGED <<store, ncalls, inserted, evictions, start>>
    /\ UNCHANGED <<clusterVars, scoreVars, requestVars>>

\* newest = list(collection.find(...).sort(timestamp, -1).limit(cap));
\* if newest: cutoff_timestamp = newest[-1][timestamp]
Snapshot(t) ==
    /\ pc[t] = "snapshot"
    /\ LET recs == UserRecs(local[t].kind, local[t].user)
       IN \E S \in NewestN(recs, Cap(local[t].kind)) :
             IF S = {}
             THEN /\ pc' = [pc EXCEPT ![t] = "return"]
                  /\ local' = local
             ELSE /\ pc' = [pc EXCEPT ![t] = "delete"]
                  /\ local' = [local EXCEPT ![t].cutoff = Oldest(S)]
    /\ UNCHANGED <<store, counters, ncalls, inserted, evictions, start>>
    /\ UNCHANGED <<clusterVars, scoreVars, requestVars>>

\* collection.delete_many({'user_id': user_id, timestamp: {'$lt': cutoff}})
DeleteMany(t) ==
    /\ pc[t] = "delete"
    /\ LET u == local[t].user
           k == local[t].kind
           recs == UserRecs(k, u)
           gone == ToDelete(recs, local[t].cutoff)
       IN /\ store' = [store EXCEPT ![k] = @ \ gone]
          /\ evictions' = evictions \cup
                {[id |-> r.id, ts |-> r.ts, kind |-> k, cutoff |-> local[t].cutoff,
                  newer |-> Cardinality({q \in recs : q.ts > r.ts})] : r \in gone}
    /\ local' = [local EXCEPT ![t].cutoff = 0]
    /\ pc' = [pc EXCEPT ![t] = "reset"]
    /\ UNCHANGED <<counters, ncalls, inserted, start>>
    /\ UNCHANGED <<clusterVars, scoreVars, requestVars>>

\* db.users.update_one(..., {'$set': {count field: cap}})
ResetCount(t) ==
    /\ pc[t] = "reset"
    /\ counters' = [counters EXCEPT ![local[t].user][local[t].kind] = Cap(local[t].kind)]
    /\ pc' = [pc EXCEPT ![t] = "return"]
    /\ UNCHANGED <<store, local, ncalls, inserted, evictions, start>>
    /\ UNCHANGED <<clusterVars, scoreVars, requestVars>>

\* return True (add_log, add_deployment) / return ticket (create_ticket)
Return(t) ==
    /\ pc[t] = "return"
    /\ local' = [local EXCEPT ![t] =
                    [NoLocal EXCEPT !.result = "True", !.passed = local[t].passed]]
    /\ pc' = [pc EXCEPT ![t] = "idle"]
    /\ UNCHANGED <<store, counters, ncalls, inserted, evictions, start>>
    /\ UNCHANGED <<clusterVars, scoreVars, requestVars>>

\* insert_one raises: except Exception: return False (None for a ticket)
InsertFails(t, u, k) ==
    /\ pc[t] = "idle"
    /\ ncalls < MaxCalls
    /\ ncalls' = ncalls + 1
    /\ local' = [local EXCEPT ![t] =
                    [NoLocal EXCEPT !.user = u, !.kind = k, !.result = "False",
                        !.before = [recs |-> UserRecs(k, u),
                                    counter |-> counters[u][k]]]]
    /\ UNCHANGED <<store, counters, pc, inserted, evictions, start>>
    /\ UNCHANGED <<clusterVars, scoreVars, requestVars>>

\* a store call after the insert raises: the call has no effect on the
\* store, and except Exception: return False (None for a ticket)
Fail(t) ==
    /\ pc[t] \in {"find_user", "count", "set", "inc", "snapshot", "delete", "reset"}
    /\ local' = [local EXCEPT ![t] =
                    [NoLocal EXCEPT !.user = local[t].user, !.kind = local[t].kind,
                        !.result = "False", !.passed = local[t].passed,
                        !.before = local[t].before]]
    /\ pc' = [pc EXCEPT ![t] = "idle"]
    /\ UNCHANGED <<store, counters, ncalls, inserted, evictions, start>>
    /\ UNCHANGED <<clusterVars, scoreVars, requestVars>>

\* mutant: delete_ticket leaves the counter alone
Decremented_Keep(c) == c

\* the value $inc by -1 leaves in the field: a missing field counts as 0
Decremented(c) == IF c = Missing THEN -1 ELSE c - 1

\* the ids a ticket may carry
TicketIds == 0..(MaxPre + MaxCalls)

\* delete_ticket(ticket_id), a whole call: find_one by _id, return False when
\* there is no such ticket; else delete_one and $inc ticket_count by -1 in
\* the document of the ticket's user
DeleteTicket(t, id) ==
    /\ pc[t] = "idle"
    /\ ncalls < MaxCalls
    /\ ncalls' = ncalls + 1
    /\ LET found == {r \in store["ticket"] : r.id = id}
       IN IF found = {}
          THEN /\ UNCHANGED <<store, counters>>
               /\ local' = [local EXCEPT ![t] =
                               [NoLocal EXCEPT !.kind = "ticket", !.result = "False"]]
          ELSE LET ticket_data == CHOOSE r \in found : TRUE
               IN /\ store' = [store EXCEPT !["ticket"] = @ \ {ticket_data}]
                  /\ counters' = [counters EXCEPT ![ticket_data.user]["ticket"] =
                                      Decremented(@)]
                  /\ local' = [local EXCEPT ![t] =
                                  [NoLocal EXCEPT !.user = ticket_data.user,
                                      !.kind = "ticket", !.result = "True"]]
    /\ UNCHANGED <<pc, inserted, evictions, start>>
    /\ UNCHANGED <<clusterVars, scoreVars, requestVars>>

\* the steps of one handler after its insert
Step(t) ==
    \/ FindUser(t)
    \/ CountDocuments(t)
    \/ SetCount(t)
    \/ IncCount(t)
    \/ Snapshot(t)
    \/ DeleteMany(t)
    \/ ResetCount(t)
    \/ Return(t)

---------------------------------------------------------------------------
(* Scoring. A real number is a fraction [n, d] with d > 0; the model       *)
(* computes in exact arithmetic where the code computes in floating point. *)

\* model signals and thresholds are drawn from 0..MaxSignal
MaxSignal == 4
\* the classifier's probability is k / RfSteps, k in 0..RfSteps
RfSteps == 4

Frac(n, d) == [n |-> n, d |-> d]
Whole(n) == [n |-> n, d |-> 1]
Less(a, b) == a.n * b.d < b.n * a.d
LessEq(a, b) == a.n * b.d <= b.n * a.d
Times(a, n, d) == [n |-> a.n * n, d |-> a.d * d]

\* a threshold table: floor is min_score for the isolation forest and
\* mean_error for the autoencoder
Tables ==
    {th \in [floor : 1..MaxSignal, threshold_95 : 1..MaxSignal,
             threshold_99 : 1..MaxSignal, threshold_99_9 : 1..MaxSignal] :
        /\ th.floor < th.threshold_95
        /\ th.threshold_95 <= th.threshold_99
        /\ th.threshold_99 <= th.threshold_99_9}

\* mutant: the interpolation is not floored at 0
IsoRisk_NoFloor(iso_score, th) ==
    IF iso_score >= th.threshold_99_9 THEN Whole(100)
    ELSE IF iso_score >= th.threshold_99 THEN Whole(80)
    ELSE IF iso_score >= th.threshold_95 THEN Whole(40)
    ELSE Frac(30 * (iso_score - th.floor), th.threshold_95 - th.floor)

\* iso_risk: the ladder over iso_thresholds, else
\* max(0, (iso_score - min_score) / (threshold_95 - min_score) * 30)
IsoRisk(iso_score, th) ==
    IF iso_score >= th.threshold_99_9 THEN Whole(100)
    ELSE IF iso_score >= th.threshold_99 THEN Whole(80)
    ELSE IF iso_score >= th.threshold_95 THEN Whole(40)
    ELSE Frac(Max(0, 30 * (iso_score - th.floor)), th.threshold_95 - th.floor)

\* ae_risk: the same ladder over ae_thresholds, interpolating from mean_error
AeRisk(ae_error, th) ==
    IF ae_error >= th.threshold_99_9 THEN Whole(100)
    ELSE IF ae_error >= th.threshold_99 THEN Whole(80)
    ELSE IF ae_error >= th.threshold_95 THEN Whole(40)
    ELSE Frac(Max(0, 30 * (ae_error - th.floor)), th.threshold_95 - th.floor)

\* rf_risk = rf_pred_proba * 100
RfRisk(k) == Frac(100 * k, RfSteps)

\* final_score = 0.5 * iso_risk + 0.3 * rf_risk + 0.2 * ae_risk
Blend(a, b, c) ==
    Frac(5 * a.n * b.d * c.d + 3 * b.n * a.d * c.d + 2 * c.n * a.d * b.d,
         10 * a.d * b.d * c.d)

\* if final_score < 20: * 0.5; elif final_score > 80: * 1.2
Shape(f) ==
    IF Less(f, Whole(20)) THEN Times(f, 1, 2)
    ELSE IF Less(Whole(80), f) THEN Times(f, 12, 10)
    ELSE f

\* round(x) of Python 3: to the nearest integer, a tie to the even one
Round(f) ==
    LET q == f.n \div f.d
        r == f.n % f.d
    IN IF 2 * r < f.d THEN q
       ELSE IF 2 * r > f.d THEN q + 1
       ELSE IF q % 2 = 0 THEN q ELSE q + 1

\* score_single_log_corrected, from the model signals on
RoundedScore(a, b, c) == Round(Shape(Blend(a, b, c)))

\* mutant: the CRITICAL threshold is exclusive
RiskLevel_Exclusive(risk_score) ==
    IF risk_score > 80 THEN "CRITICAL"
    ELSE IF risk_score >= 60 THEN "HIGH"
    ELSE IF risk_score >= 40 THEN "MEDIUM"
    ELSE IF risk_score >= 20 THEN "LOW"
    ELSE "SAFE"

\* evaluate_log: the risk level of a score
RiskLevel(risk_score) ==
    IF risk_score >= 80 THEN "CRITICAL"
    ELSE IF risk_score >= 60 THEN "HIGH"
    ELSE IF risk_score >= 40 THEN "MEDIUM"
    ELSE IF risk_score >= 20 THEN "LOW"
    ELSE "SAFE"

\* the first prototype's model_evaluate: the risk level of a score
PrototypeRiskLevel(risk_score) ==
    IF risk_score >= 80 THEN "HIGH"
    ELSE IF risk_score >= 50 THEN "MEDIUM"
    ELSE "LOW"

SensitiveActions == {"Create", "Delete", "Modify", "Put", "Update"}
HighRiskEvents ==
    {"CreatePolicyVersion", "PutBucketPolicy", "DeleteUser", "CreateUser", "DeleteRole"}
\* event names as <<verb, rest>>; the name is verb followed by rest
EventNames == {<<"Describe", "Instances">>, <<"Create", "User">>, <<"Put", "Object">>}
EventName(e) == IF e = <<"Create", "User">> THEN "CreateUser"
                ELSE IF e = <<"Put", "Object">> THEN "PutObject"
                ELSE "DescribeInstances"

\* any(action in str(x) for action in sensitive_actions)
IsSensitiveAction(e) == IF e[1] \in SensitiveActions THEN 1 ELSE 0

\* the fallback base score: each np.where overwrites the rows its condition
\* selects, so the condition tested last decides
FallbackBase(root, sensitive, error) ==
    LET s0 == 0
        s1 == IF root /\ sensitive = 1 THEN 40 ELSE s0
        s2 == IF root /\ error = 1 THEN 35 ELSE s1
        s3 == IF sensitive = 1 /\ error = 1 THEN 30 ELSE s2
        s4 == IF root /\ sensitive = 0 /\ error = 0 THEN 25 ELSE s3
        s5 == IF sensitive = 1 /\ ~root /\ error = 0 THEN 20 ELSE s4
        s6 == IF error = 1 /\ ~root /\ sensitive = 0 THEN 15 ELSE s5
    IN s6

NoError == "NoError"
NaN == "NaN"

\* a dot-separated part of an address: decimal digits with their value, a
\* digit that str.isdigit accepts and int rejects (a superscript), or text
Dec(n) == [kind |-> "decimal", val |-> n]
Sup == [kind |-> "superscript", val |-> 0]
Text == [kind |-> "text", val |-> 0]

DefaultAddress == <<Dec(10), Dec(0), Dec(0), Dec(1)>>

\* str(ip).split('.') of the source addresses tried: 10.0.0.1, 300.1.2.3,
\* abc.1.2.3, 10.x, 300, localhost and a superscript two before .1
Addresses ==
    {DefaultAddress,
     <<Dec(300), Dec(1), Dec(2), Dec(3)>>,
     <<Text, Dec(1), Dec(2), Dec(3)>>,
     <<Dec(10), Text>>,
     <<Dec(300)>>,
     <<Text>>,
     <<Sup, Dec(1)>>}

\* the outcome of int(x): a value, or ValueError
IntOf(part) ==
    IF part.kind = "decimal" THEN [ok |-> TRUE, val |-> part.val]
    ELSE [ok |-> FALSE, val |-> 0]

\* x.isdigit()
IsDigit(part) == part.kind \in {"decimal", "superscript"}

\* the first prototype's extract_ip_features: int() of the first two parts
\* when there are two, else 0, 0
ExtractIpFeatures(parts) ==
    IF Len(parts) >= 2
    THEN [ok |-> IntOf(parts[1]).ok /\ IntOf(parts[2]).ok,
          first |-> IntOf(parts[1]).val, second |-> IntOf(parts[2]).val]
    ELSE [ok |-> TRUE, first |-> 0, second |-> 0]

\* preprocess_data: int(part) if part.isdigit() else 0, the second part
\* when there is one
PreprocessOctets(parts) ==
    LET first == IF IsDigit(parts[1]) THEN IntOf(parts[1]) ELSE [ok |-> TRUE, val |-> 0]
        second == IF Len(parts) > 1 /\ IsDigit(parts[2]) THEN IntOf(parts[2])
                  ELSE [ok |-> TRUE, val |-> 0]
    IN [ok |-> first.ok /\ second.ok, first |-> first.val, second |-> second.val]

DefaultTable ==
    [floor |-> 1, threshold_95 |-> 2, threshold_99 |-> 2, threshold_99_9 |-> 2]

\* the model signals vary over one log
EnsembleInputs ==
    [path : {"ensemble"},
     iso_pred_raw : {-x : x \in 0..MaxSignal}, iso_thresholds : Tables,
     rf : 0..RfSteps,
     ae_error : 0..MaxSignal, ae_thresholds : Tables,
     userIdentitytype : {"IAMUser"}, eventName : {<<"Describe", "Instances">>},
     errorCode : {NoError}, errorMessage : {NoError},
     sourceIPAddress : {DefaultAddress},
     model_loaded : {TRUE}, prediction : {1}]

\* the log varies under two settings of the model signals
EnsembleFeatureInputs ==
    [path : {"ensemble"},
     iso_pred_raw : {-MaxSignal}, iso_thresholds : {DefaultTable},
     rf : {0, RfSteps},
     ae_error : {0}, ae_thresholds : {DefaultTable},
     userIdentitytype : {"Root", "IAMUser"}, eventName : EventNames,
     errorCode : {NaN, NoError, "AccessDenied"},
     errorMessage : {NoError, "", "Access denied"},
     sourceIPAddress : Addresses,
     model_loaded : {TRUE}, prediction : {1}]

PrototypeInputs ==
    [path : {"prototype"},
     iso_pred_raw : {0}, iso_thresholds : {DefaultTable},
     rf : {0},
     ae_error : {0}, ae_thresholds : {DefaultTable},
     userIdentitytype : {"Root", "IAMUser"}, eventName : EventNames,
     errorCode : {NaN, NoError, "AccessDenied"},
     errorMessage : {NoError, "", "Access denied"},
     sourceIPAddress : Addresses,
     model_loaded : BOOLEAN, prediction : {-1, 1}]

NoOut ==
    [risk_score |-> 0, risk_level |-> "none", anomaly_detected |-> FALSE,
     model_loaded |-> FALSE,
     iso_risk |-> Whole(0), rf_risk |-> Whole(0), ae_risk |-> Whole(0),
     base_score |-> 0, rule_score |-> 0, bonus |-> 0,
     status |-> 0, isRootUser |-> 0, is_sensitive_action |-> 0, has_error |-> 0,
     ip_first_octet |-> 0, ip_second_octet |-> 0, rule_flags |-> 0]

ScoreOff ==
    /\ scPhase = "off"
    /\ scIn = [path |-> "none"]
    /\ scOut = NoOut

ScoreInit ==
    /\ scPhase = "input"
    /\ scIn \in EnsembleInputs \cup EnsembleFeatureInputs \cup PrototypeInputs
    /\ scOut = NoOut

\* MultiModelCSPM.evaluate_log with the models loaded: score_log_string
\* (preprocess_data, then the models), then the risk level; model_evaluate
\* reports model_loaded = True and len(risk_reasons) = 2 rule flags. An
\* exception gives success False, which model_evaluate answers with 400
EvaluateLog ==
    /\ scPhase = "input"
    /\ scIn.path = "ensemble"
    /\ LET octets == PreprocessOctets(scIn.sourceIPAddress)
           isRootUser == IF scIn.userIdentitytype = "Root" THEN 1 ELSE 0
           iso_score == -scIn.iso_pred_raw
           iso_risk == IsoRisk(iso_score, scIn.iso_thresholds)
           rf_risk == RfRisk(scIn.rf)
           ae_risk == AeRisk(scIn.ae_error, scIn.ae_thresholds)
           risk_score == RoundedScore(iso_risk, rf_risk, ae_risk)
       IN IF octets.ok
          THEN /\ scOut' = [NoOut EXCEPT !.risk_score = risk_score,
                                         !.risk_level = RiskLevel(risk_score),
                                         !.anomaly_detected = (risk_score > 50),
                                         !.model_loaded = TRUE,
                                         !.iso_risk = iso_risk,
                                         !.rf_risk = rf_risk,
                                         !.ae_risk = ae_risk,
                                         !.status = 200,
                                         !.isRootUser = isRootUser,
                                         !.ip_first_octet = octets.first,
                                         !.ip_second_octet = octets.second,
                                         !.rule_flags = 2]
               /\ scPhase' = "done"
          ELSE /\ scOut' = [NoOut EXCEPT !.status = 400]
               /\ scPhase' = "failed"
    /\ UNCHANGED scIn
    /\ UNCHANGED <<retentionVars, clusterVars, requestVars>>

\* mutant: the error adds nothing
Bonus_NoError(isRootUser, is_sensitive_action, has_error) ==
    isRootUser * 10 + is_sensitive_action * 10

\* risk_scores += isRootUser * 10, is_sensitive_action * 10, has_error * 10
Bonus(isRootUser, is_sensitive_action, has_error) ==
    isRootUser * 10 + is_sensitive_action * 10 + has_error * 10

\* df['has_error']: 0 if errorMessage == 'NoError' else 1; the error code,
\* NaN already replaced by 'NoError', is not read
HasError(errorCode, errorMessage) == IF errorMessage = NoError THEN 0 ELSE 1

\* the first prototype's model_evaluate, from the list of 18 features on; an
\* exception is answered with 400
PrototypeModelEvaluate ==
    /\ scPhase = "input"
    /\ scIn.path = "prototype"
    /\ LET errorCode == IF scIn.errorCode = NaN THEN NoError ELSE scIn.errorCode
           root == scIn.userIdentitytype = "Root"
           isRootUser == IF root THEN 1 ELSE 0
           octets == ExtractIpFeatures(scIn.sourceIPAddress)
           is_sensitive_action == IsSensitiveAction(scIn.eventName)
           has_error == HasError(errorCode, scIn.errorMessage)
           rule1 == root /\ is_sensitive_action = 1
           rule2 == errorCode # NoError
           rule3 == octets.first > 255
           rule_flags == IF rule1 \/ rule2 \/ rule3 THEN 1 ELSE 0
           anomaly == scIn.prediction = -1
           should_be_anomaly == EventName(scIn.eventName) \in HighRiskEvents \/ rule1
           base_score ==
               IF scIn.model_loaded
               THEN (IF anomaly THEN 50 ELSE 0)
                    + (IF ~anomaly /\ should_be_anomaly THEN 50 ELSE 0)
               ELSE FallbackBase(root, is_sensitive_action, has_error)
           rule_score == rule_flags * 20
           bonus == Bonus(isRootUser, is_sensitive_action, has_error)
           risk_score == Min(100, base_score + rule_score + bonus)
       IN IF octets.ok
          THEN /\ scOut' = [NoOut EXCEPT !.risk_score = risk_score,
                                         !.risk_level = PrototypeRiskLevel(risk_score),
                                         !.anomaly_detected = (scIn.model_loaded /\ anomaly),
                                         !.model_loaded = scIn.model_loaded,
                                         !.base_score = base_score,
                                         !.rule_score = rule_score,
                                         !.bonus = bonus,
                                         !.status = 200,
                                         !.isRootUser = isRootUser,
                                         !.is_sensitive_action = is_sensitive_action,
                                         !.has_error = has_error,
                                         !.ip_first_octet = octets.first,
                                         !.ip_second_octet = octets.second,
                                         !.rule_flags = rule_flags]
               /\ scPhase' = "done"
          ELSE /\ scOut' = [NoOut EXCEPT !.status = 400]
               /\ scPhase' = "failed"
    /\ UNCHANGED scIn
    /\ UNCHANGED <<retentionVars, clusterVars, requestVars>>

ScoreNext == EvaluateLog \/ PrototypeModelEvaluate

---------------------------------------------------------------------------
\* the response before any request: no status, no result
NoResponse ==
    [status |-> 0, error |-> "none", has_result |-> FALSE, risk_score |-> 0,
     risk_level |-> "none", model_loaded |-> FALSE]

NoRequest ==
    [shape |-> "none", len |-> 0, delims |-> 0, artifacts |-> "ok",
     store |-> "up", score |-> 0]

\* the request variables while no request handler runs
RequestOff ==
    /\ rqPhase = "off"
    /\ rqIn = NoRequest
    /\ rqOut = NoResponse
    /\ rqLoads = 0
    /\ rqCount = 0
    /\ rqScored = FALSE
    /\ rqDoc = <<>>
    /\ rqBack = <<>>

\* the clustering variables while no clustering request runs
ClusterOff ==
    /\ clPhase = "off"
    /\ clLogs = <<>>
    /\ clWindow = 0
    /\ clMin = 0
    /\ clI = 0
    /\ clUsed = {}
    /\ clGroups = <<>>
    /\ clCands = <<>>

\* a user document written by User.to_dict carries the three counters; a
\* legacy user document has none of them. Either may own documents already,
\* the counters of a current user being in step with them
PreDocs(n, f) == {[id |-> i, user |-> "u1", ts |-> f[i]] : i \in 1..n}

\* another identity owns one document of every record type, older than any
\* other document
OtherDocs == {[id |-> 0, user |-> "u2", ts |-> 1]}

RetentionInit ==
    /\ \E n \in 0..MaxPre : \E f \in [1..n -> Timestamps] : \E m \in BOOLEAN :
          /\ store = [k \in Kinds |-> PreDocs(n, f) \cup OtherDocs]
          /\ counters = [u \in Users |-> [k \in Kinds |->
                            IF m THEN Missing
                            ELSE Cardinality({r \in PreDocs(n, f) \cup OtherDocs :
                                                 r.user = u})]]
          /\ start = [n |-> n, missing |-> m]
    /\ pc = [t \in Threads |-> "idle"]
    /\ local = [t \in Threads |-> NoLocal]
    /\ ncalls = 0
    /\ inserted = <<>>
    /\ evictions = {}

Idle == \A t \in Threads : pc[t] = "idle"

\* the record types used so far
KindsUsed == {inserted[i].kind : i \in 1..Len(inserted)}

\* sequential execution: one caller, one record type per behaviour, any
\* timestamps
SeqNext ==
    \/ \E k \in Kinds : \E ts \in Timestamps :
          /\ KindsUsed \subseteq {k}
          /\ InsertOne(1, "u1", k, ts)
    \/ Step(1)

SeqInit == RetentionInit /\ ClusterOff /\ ScoreOff /\ RequestOff

SpecSeq == SeqInit /\ [][SeqNext]_vars

\* concurrent add_log calls for one identity: every thread makes one call,
\* and the threads are numbered in the order their inserts reach the store
ConcNext ==
    \E t \in Threads \ {4} :
        \/ \E ts \in Timestamps :
              /\ ncalls = t - 1
              /\ InsertOne(t, "u1", "log", ts)
        \/ Step(t)

ConcInit == RetentionInit /\ ClusterOff /\ ScoreOff /\ RequestOff

SpecConc == ConcInit /\ [][ConcNext]_vars

\* four concurrent add_log calls for one identity, the timestamp of a record
\* being the position of its insert
RaceNext ==
    \E t \in Threads :
        \/ /\ ncalls = t - 1
           /\ InsertOne(t, "u1", "log", ncalls + 1)
        \/ Step(t)

RaceInit == RetentionInit /\ ClusterOff /\ ScoreOff /\ RequestOff

SpecRace == RaceInit /\ [][RaceNext]_vars

\* sequential add_log calls against a store whose calls may raise
FailNext ==
    \/ \E ts \in Timestamps : InsertOne(1, "u1", "log", ts)
    \/ InsertFails(1, "u1", "log")
    \/ Step(1)
    \/ Fail(1)

FailInit == RetentionInit /\ ClusterOff /\ ScoreOff /\ RequestOff

SpecFail == FailInit /\ [][FailNext]_vars

\* sequential create_ticket and delete_ticket calls
TicketNext ==
    \/ \E ts \in Timestamps : InsertOne(1, "u1", "ticket", ts)
    \/ Step(1)
    \/ \E id \in TicketIds : DeleteTicket(1, id)

TicketInit == RetentionInit /\ ClusterOff /\ ScoreOff /\ RequestOff

SpecTicket == TicketInit /\ [][TicketNext]_vars

---------------------------------------------------------------------------
(* Urgent-issue clustering: LogManager.get_urgent_issue_groups.            *)
(* A log is [type, ip, ts]: user_identity_type, source_ip and its          *)
(* timestamp in seconds. Groups hold indices into the fetched list.        *)

\* logs fetched per request
MaxLogs == 4

IdentityTypes == {"Root", "IAMUser"}
SourceIps == {"10.0.0.1", "10.0.0.2"}
\* timestamps in seconds: 0, 1, 2, 10 and 50 minutes
ClusterTimes == {0, 60, 120, 600, 3000}
Windows == {1, 10}
MinSizes == 1..3

Events == [type : IdentityTypes, ip : SourceIps, ts : ClusterTimes]

Abs(x) == IF x < 0 THEN -x ELSE x

\* logs_collection.find(query).sort('timestamp', 1): any order of the stored
\* logs that ascends in timestamp
SortedLists ==
    UNION {{l \in [1..n -> Events] : \A i \in 1..(n - 1) : l[i].ts <= l[i + 1].ts}
           : n \in 0..MaxLogs}

\* mutant: a rolling window, measured from the member added last
Absorbs_Rolling(group, j) ==
    /\ clLogs[j].type = clLogs[group[1]].type
    /\ clLogs[j].ip = clLogs[group[1]].ip
    /\ Abs(clLogs[j].ts - clLogs[group[Len(group)]].ts) <= clWindow * 60

\* mutant: the inner loop does not test the time window
Absorbs_KeyOnly(group, j) ==
    /\ clLogs[j].type = clLogs[group[1]].type
    /\ clLogs[j].ip = clLogs[group[1]].ip

\* mutant: the inner loop does not test the source IP
Absorbs_AnyIp(group, j) ==
    /\ clLogs[j].type = clLogs[group[1]].type
    /\ Abs(clLogs[j].ts - clLogs[group[1]].ts) <= clWindow * 60

\* the test of the inner loop: same user_identity_type, same source_ip and
\* abs((other.timestamp - t0).total_seconds()) <= time_window_minutes * 60,
\* where t0, user and ip are those of group[0]
Absorbs(group, j) ==
    /\ clLogs[j].type = clLogs[group[1]].type
    /\ clLogs[j].ip = clLogs[group[1]].ip
    /\ Abs(clLogs[j].ts - clLogs[group[1]].ts) <= clWindow * 60

\* the inner loop, for j in range(i+1, len(logs)), from index j on
RECURSIVE Scan(_, _, _)
Scan(group, j, used) ==
    IF j > Len(clLogs) THEN group
    ELSE IF j \notin used /\ Absorbs(group, j)
         THEN Scan(Append(group, j), j + 1, used \cup {j})
         ELSE Scan(group, j + 1, used)

\* mutant: a group must exceed min_group_size
Emits_Strict(group) == Len(group) > clMin

\* if len(group) >= min_group_size
Emits(group) == Len(group) >= clMin

\* mutant: the members of a dropped group are released again
UsedAfter_Release(used, group) ==
    IF Emits(group) THEN used \cup {group[k] : k \in 1..Len(group)}
    ELSE used \cup {group[1]}

\* mutant: only the anchor is marked as used
UsedAfter_AnchorOnly(used, group) == used \cup {group[1]}

\* used.add(i) and used.add(j): every member is marked, emitted or not
UsedAfter(used, group) == used \cup {group[k] : k \in 1..Len(group)}

Members(group) == {group[k] : k \in 1..Len(group)}

\* time_span, in seconds: group[-1].timestamp - group[0].timestamp
TimeSpan(group) == clLogs[group[Len(group)]].ts - clLogs[group[1]].ts

\* mutant: the identity and IP are tested before the span
MainReason_KeyFirst(group) ==
    LET unique_users == Cardinality({clLogs[g].type : g \in Members(group)})
        unique_ips == Cardinality({clLogs[g].ip : g \in Members(group)})
    IN IF unique_users = 1 /\ unique_ips = 1 THEN "same_user_same_ip"
       ELSE IF TimeSpan(group) <= 2 * 60 THEN "rapid_activity"
       ELSE IF unique_users = 1 THEN "same_user_multiple_ips"
       ELSE IF unique_ips = 1 THEN "multiple_users_same_ip"
       ELSE "activity_cluster"

\* the branch of main_reason; time_span <= 2 is in minutes
MainReason(group) ==
    LET unique_users == Cardinality({clLogs[g].type : g \in Members(group)})
        unique_ips == Cardinality({clLogs[g].ip : g \in Members(group)})
    IN IF TimeSpan(group) <= 2 * 60 THEN "rapid_activity"
       ELSE IF unique_users = 1 /\ unique_ips = 1 THEN "same_user_same_ip"
       ELSE IF unique_users = 1 THEN "same_user_multiple_ips"
       ELSE IF unique_ips = 1 THEN "multiple_users_same_ip"
       ELSE "activity_cluster"

\* the dictionary appended to groups
GroupDict(group) ==
    [user_identity_type |-> clLogs[group[1]].type,
     source_ip |-> clLogs[group[1]].ip,
     start_time |-> clLogs[group[1]].ts,
     end_time |-> clLogs[group[Len(group)]].ts,
     main_reason |-> MainReason(group),
     logs |-> group]

\* a request: the parameters and the sorted logs it fetches
ClusterInit ==
    /\ clPhase = "loop"
    /\ clLogs \in SortedLists
    /\ clWindow \in Windows
    /\ clMin \in MinSizes
    /\ clI = 1
    /\ clUsed = {}
    /\ clGroups = <<>>
    /\ clCands = <<>>

\* if i in used: continue
SkipUsed ==
    /\ clPhase = "loop"
    /\ clI <= Len(clLogs)
    /\ clI \in clUsed
    /\ clI' = clI + 1
    /\ UNCHANGED <<clPhase, clLogs, clWindow, clMin, clUsed, clGroups, clCands>>
    /\ UNCHANGED <<retentionVars, scoreVars, requestVars>>

\* one pass of the outer loop for an index not yet used: build the group
\* anchored at logs[i], mark its members, append it when large enough
OpenGroup ==
    /\ clPhase = "loop"
    /\ clI <= Len(clLogs)
    /\ clI \notin clUsed
    /\ LET group == Scan(<<clI>>, clI + 1, clUsed \cup {clI})
       IN /\ clUsed' = UsedAfter(clUsed, group)
          /\ clGroups' = IF Emits(group) THEN Append(clGroups, GroupDict(group))
                         ELSE clGroups
          /\ clCands' = Append(clCands, [logs |-> group, usedBefore |-> clUsed])
    /\ clI' = clI + 1
    /\ UNCHANGED <<clPhase, clLogs, clWindow, clMin>>
    /\ UNCHANGED <<retentionVars, scoreVars, requestVars>>

\* return groups
ReturnGroups ==
    /\ clPhase = "loop"
    /\ clI > Len(clLogs)
    /\ clPhase' = "returned"
    /\ UNCHANGED <<clLogs, clWindow, clMin, clI, clUsed, clGroups, clCands>>
    /\ UNCHANGED <<retentionVars, scoreVars, requestVars>>

RetentionOff ==
    /\ store = [k \in Kinds |-> {}]
    /\ counters = [u \in Users |-> [k \in Kinds |-> 0]]
    /\ start = [n |-> 0, missing |-> FALSE]
    /\ pc = [t \in Threads |-> "idle"]
    /\ local = [t \in Threads |-> NoLocal]
    /\ ncalls = 0
    /\ inserted = <<>>
    /\ evictions = {}

ClusterNext == SkipUsed \/ OpenGroup \/ ReturnGroups

ScoreSpecInit == ScoreInit /\ RetentionOff /\ ClusterOff /\ RequestOff

SpecScore == ScoreSpecInit /\ [][ScoreNext]_vars

ClusterSpecInit == ClusterInit /\ RetentionOff /\ ScoreOff /\ RequestOff

SpecCluster == ClusterSpecInit /\ [][ClusterNext]_vars

---------------------------------------------------------------------------
(* The scoring request: model_evaluate of WebForCSPM/server/routes/api.py, *)
(* from the authenticated request on. A request body is a list of features *)
(* or a pipe-separated string; the environment of a request is the state   *)
(* of the artifact files and of the document store.                        *)

\* requests per behaviour
MaxRequests == 2
\* the number of columns of a log
NumFeatures == 18

\* parse_log_string: the 18 column names
RawFields ==
    {"eventID", "eventTime", "sourceIPAddress", "userAgent", "eventName",
     "eventSource", "awsRegion", "eventVersion", "userIdentitytype",
     "eventType", "userIdentityaccountId", "userIdentityprincipalId",
     "userIdentityarn", "userIdentityaccessKeyId", "userIdentityuserName",
     "errorCode", "errorMessage", "requestParametersinstanceType"}

\* the raw attributes LogEntry.__init__ reads from kwargs and to_dict writes
EntryRawAttrs == RawFields \ {"eventName"}

None == "None"

\* LogEntry(...): the positional attributes, and kwargs.get(f) for each raw
\* attribute
NewLogEntry(core, kwargs) ==
    [core |-> core,
     raw |-> [f \in EntryRawAttrs |-> IF f \in DOMAIN kwargs THEN kwargs[f] ELSE None]]

\* LogEntry.to_dict
ToDict(e) == [core |-> e.core, raw |-> [f \in EntryRawAttrs |-> e.raw[f]]]

\* LogEntry.from_dict: the constructor is given the positional attributes only
FromDict(d) == NewLogEntry(d.core, [f \in {} |-> None])

\* a body: a list of len elements holding delims pipes inside its elements,
\* a string holding delims pipes, or neither
Bodies ==
    [shape : {"list"}, len : (NumFeatures - 1)..(NumFeatures + 1), delims : 0..1]
    \cup [shape : {"string"}, len : {1}, delims : (NumFeatures - 2)..NumFeatures]
    \cup [shape : {"other"}, len : {0}, delims : {0}]

\* '|'.join(str(feature) for feature in data): the delimiters of the string
Joined(body) == IF body.shape = "list" THEN (body.len - 1) + body.delims ELSE body.delims

\* len(log_string.strip().split('|'))
SplitCount(delims) == delims + 1

\* scores the ensemble returns
RequestScores == {15, 55, 85}

Requests ==
    {[shape |-> b.shape, len |-> b.len, delims |-> b.delims,
      artifacts |-> a, store |-> st, score |-> sc] :
        b \in Bodies, a \in {"ok", "missing"},
        st \in {"up", "insert_fails", "counter_fails"}, sc \in RequestScores}

\* a response that carries an error
ErrorResponse(status, error) ==
    [NoResponse EXCEPT !.status = status, !.error = error]

RequestInit ==
    /\ rqPhase = "idle"
    /\ rqIn = NoRequest
    /\ rqOut = NoResponse
    /\ rqLoads = 0
    /\ rqCount = 0
    /\ rqScored = FALSE
    /\ rqDoc = <<>>
    /\ rqBack = <<>>

\* a request reaches protected_route
Receive ==
    /\ rqPhase \in {"idle", "responded"}
    /\ rqCount < MaxRequests
    /\ rqIn' \in Requests
    /\ rqCount' = rqCount + 1
    /\ rqPhase' = "validate"
    /\ rqOut' = NoResponse
    /\ rqScored' = FALSE
    /\ rqDoc' = <<>>
    /\ rqBack' = <<>>
    /\ UNCHANGED rqLoads
    /\ UNCHANGED <<retentionVars, clusterVars, scoreVars>>

\* isinstance(data, list) / len(data) != 18 / isinstance(data, str)
ValidateBody ==
    /\ rqPhase = "validate"
    /\ IF rqIn.shape = "list" /\ rqIn.len # NumFeatures
       THEN /\ rqOut' = ErrorResponse(400, "list_length")
            /\ rqPhase' = "responded"
       ELSE IF rqIn.shape = "other"
       THEN /\ rqOut' = ErrorResponse(400, "input_type")
            /\ rqPhase' = "responded"
       ELSE /\ rqOut' = rqOut
            /\ rqPhase' = "construct"
    /\ UNCHANGED <<rqIn, rqLoads, rqCount, rqScored, rqDoc, rqBack>>
    /\ UNCHANGED <<retentionVars, clusterVars, scoreVars>>

\* MultiModelCSPM(): load_models raises when a file is missing or corrupt,
\* and the handler's except answers 400
Construct ==
    /\ rqPhase = "construct"
    /\ IF rqIn.artifacts = "missing"
       THEN /\ rqOut' = ErrorResponse(400, "processing_failed")
            /\ rqPhase' = "responded"
            /\ rqLoads' = rqLoads
       ELSE /\ rqOut' = rqOut
            /\ rqPhase' = "evaluate"
            /\ rqLoads' = rqLoads + 1
    /\ UNCHANGED <<rqIn, rqCount, rqScored, rqDoc, rqBack>>
    /\ UNCHANGED <<retentionVars, clusterVars, scoreVars>>

\* parse_log_string: len(values) != len(columns) raises ValueError
WrongFieldCount(count) == count # NumFeatures

\* result = cspm.evaluate_log(log_data): score_log_string parses, then
\* score_single_log_corrected loads the artifacts and scores; an exception
\* gives success False and the handler answers 400
RequestEvaluate ==
    /\ rqPhase = "evaluate"
    /\ IF WrongFieldCount(SplitCount(Joined(rqIn)))
       THEN /\ rqOut' = ErrorResponse(400, "format")
            /\ rqPhase' = "responded"
            /\ UNCHANGED <<rqLoads, rqScored>>
       ELSE /\ rqOut' = [NoResponse EXCEPT !.has_result = TRUE,
                                           !.risk_score = rqIn.score,
                                           !.risk_level = RiskLevel(rqIn.score)]
            /\ rqPhase' = "persist"
            /\ rqLoads' = rqLoads + 1
            /\ rqScored' = TRUE
    /\ UNCHANGED <<rqIn, rqCount, rqDoc, rqBack>>
    /\ UNCHANGED <<retentionVars, clusterVars, scoreVars>>

\* input_features = result['input_features']: every column with its value
InputFeatures == [f \in RawFields |-> f]

\* log_entry = LogEntry(...) as the handler builds it
RequestLogEntry ==
    NewLogEntry([event_id |-> InputFeatures["eventID"],
                 event_name |-> InputFeatures["eventName"],
                 user_identity_type |-> InputFeatures["userIdentitytype"],
                 source_ip |-> InputFeatures["sourceIPAddress"],
                 risk_score |-> rqOut.risk_score,
                 risk_level |-> rqOut.risk_level,
                 model_loaded |-> TRUE,
                 anomaly_detected |-> (rqOut.risk_score > 50),
                 rule_based_flags |-> 2,
                 timestamp |-> rqCount,
                 user_id |-> "u1"],
                InputFeatures)

\* mutant: a failure of the store reaches the handler
AddLogRaises_Propagated(st) == st # "up"

\* add_log catches every exception and returns False; the handler does not
\* read the result
AddLogRaises(st) == FALSE

\* LogManager.add_log(log_entry), then the response is built and returned
Persist ==
    /\ rqPhase = "persist"
    /\ rqDoc' = IF rqIn.store = "insert_fails" THEN <<>>
                ELSE <<ToDict(RequestLogEntry)>>
    /\ rqOut' = IF AddLogRaises(rqIn.store)
                THEN ErrorResponse(400, "processing_failed")
                ELSE [rqOut EXCEPT !.status = 200, !.model_loaded = TRUE]
    /\ rqPhase' = "responded"
    /\ UNCHANGED <<rqIn, rqLoads, rqCount, rqScored, rqBack>>
    /\ UNCHANGED <<retentionVars, clusterVars, scoreVars>>

\* a reader of the store: LogEntry.from_dict(doc).to_dict()
ReadBack ==
    /\ rqPhase = "responded"
    /\ rqDoc # <<>>
    /\ rqBack = <<>>
    /\ rqBack' = <<ToDict(FromDict(rqDoc[1]))>>
    /\ UNCHANGED <<rqPhase, rqIn, rqOut, rqLoads, rqCount, rqScored, rqDoc>>
    /\ UNCHANGED <<retentionVars, clusterVars, scoreVars>>

RequestNext ==
    \/ Receive
    \/ ValidateBody
    \/ Construct
    \/ RequestEvaluate
    \/ Persist
    \/ ReadBack

RequestSpecInit == RequestInit /\ RetentionOff /\ ClusterOff /\ ScoreOff

SpecRequest == RequestSpecInit /\ [][RequestNext]_vars

---------------------------------------------------------------------------
(* Claims about the retention manager.                                     *)

\* the timestamps of the documents inserted so far, in insertion order
InsertedTs == [i \in 1..Len(inserted) |-> inserted[i].doc.ts]

StrictlyIncreasing(seq) == \A i \in 1..(Len(seq) - 1) : seq[i] < seq[i + 1]

\* the n documents inserted last
LastInserted(n) ==
    {inserted[i].doc : i \in (Max(0, Len(inserted) - n) + 1)..Len(inserted)}

StartedEmpty == start.n = 0 /\ ~start.missing

\* C1: sequential inserts for one identity with strictly increasing
\* timestamps, starting from no records and counter 0: after every call the
\* stored records are exactly the min(k, cap) newest of the k inserted.
C1_KeepsNewest ==
    (Idle /\ StartedEmpty /\ StrictlyIncreasing(InsertedTs)) =>
        \A k \in Kinds :
            KindsUsed = {k} => UserRecs(k, "u1") = LastInserted(Cap(k))

\* C1 witness: cap + 1 log inserts with increasing timestamps have completed
\* (cap = 3: the 4th insert has evicted the oldest)
C1_Witness ==
    /\ Idle /\ StartedEmpty /\ StrictlyIncreasing(InsertedTs)
    /\ KindsUsed = {"log"}
    /\ Len(inserted) = LogCap + 1
    /\ Cardinality(UserRecs("log", "u1")) = LogCap

\* C3: after every completed call of a sequential execution the identity
\* holds at most cap records, whatever the timestamps (ties included).
C3_BoundedByCap ==
    Idle => \A k \in Kinds : Cardinality(UserRecs(k, "u1")) <= Cap(k)

\* C2: no eviction pass deletes a document that is among the cap newest of
\* its identity at the moment of the delete; every deleted document is
\* strictly older than the oldest document of the snapshot the pass read.
C2_DeletesOnlyBeyondCap ==
    \A e \in evictions : e.ts < e.cutoff /\ e.newer >= Cap(e.kind)

C2_FreshOnly == start.missing \/ C2_DeletesOnlyBeyondCap

---------------------------------------------------------------------------
(* Claims about the scoring request.                                       *)

Responded == rqPhase = "responded" /\ rqIn.shape \in {"list", "string"}

\* the fields of the record the caller sent: the elements of a list, the
\* delimiter-separated parts of a string
NumFields(body) == IF body.shape = "list" THEN body.len ELSE SplitCount(body.delims)

FormatErrors == {"list_length", "format"}

\* C11: a raw record is rejected with a format error iff it has a number of
\* fields different from 18; a rejected record is answered with an error
\* and is never scored or persisted.
C11_RejectsWrongCount ==
    Responded =>
        /\ rqOut.error \in FormatErrors <=> NumFields(rqIn) # NumFeatures
        /\ NumFields(rqIn) # NumFeatures =>
               rqOut.status = 400 /\ ~rqScored /\ rqDoc = <<>>

\* C11 holds for the bodies whose list elements hold no pipe, the artifacts
\* being loadable
C11_PlainBodies ==
    (rqIn.artifacts = "ok" /\ (rqIn.shape = "list" => rqIn.delims = 0)) =>
        C11_RejectsWrongCount

WellFormed == NumFields(rqIn) = NumFeatures /\ SplitCount(Joined(rqIn)) = NumFeatures

\* C12: with an artifact missing or corrupt, a request for a well-formed
\* record does not fail: it returns a fallback score and model_loaded false.
C12_FallsBack ==
    (Responded /\ WellFormed /\ rqIn.artifacts = "missing") =>
        /\ rqOut.status = 200
        /\ rqOut.has_result
        /\ rqOut.model_loaded = FALSE

\* C13: a failure of the store (insert or counter update) never reaches the
\* caller: a request that was scored is answered 200 with its score.
C13_StoreFailureHidden ==
    (Responded /\ rqScored) =>
        /\ rqOut.status = 200
        /\ rqOut.error = "none"
        /\ rqOut.has_result
        /\ rqOut.risk_score = rqIn.score
        /\ rqOut.risk_level = RiskLevel(rqIn.score)

\* C13 witness: the insert failed, nothing was stored, and the well-formed
\* request got its score
C13_Witness ==
    /\ Responded /\ WellFormed
    /\ rqIn.store = "insert_fails"
    /\ rqDoc = <<>>
    /\ rqOut.status = 200 /\ rqOut.has_result /\ rqOut.risk_score = rqIn.score

\* C14: artifacts are loaded once, at initialisation: no step of a request
\* loads an artifact.
C14_NoLoadPerRequest == [][rqLoads' = rqLoads]_vars

\* C19: the stored document holds each of the 18 raw fields under its own
\* name, and from_dict followed by to_dict gives the stored document back.
C19_RoundTrip ==
    /\ rqDoc # <<>> =>
          \A f \in RawFields :
              f \in DOMAIN rqDoc[1].raw /\ rqDoc[1].raw[f] = InputFeatures[f]
    /\ rqBack # <<>> => rqBack[1] = rqDoc[1]

\* what survives the round trip: the positional attributes
C19_CoreRoundTrip ==
    rqBack # <<>> =>
        /\ rqBack[1].core = rqDoc[1].core
        /\ \A f \in EntryRawAttrs :
              rqDoc[1].raw[f] = InputFeatures[f] /\ rqBack[1].raw[f] = None

---------------------------------------------------------------------------
(* Claims about urgent-issue clustering.                                   *)

SameKey(a, b) == clLogs[a].type = clLogs[b].type /\ clLogs[a].ip = clLogs[b].ip

\* |o.timestamp - e.timestamp| <= window_minutes, timestamps in seconds
WithinWindow(a, b) == Abs(clLogs[a].ts - clLogs[b].ts) <= clWindow * 60

LogIndices == 1..Len(clLogs)

\* C4: the window is anchored. The anchor of a group is the earliest event
\* not yet used, and a later not-yet-used event o joins the group iff it has
\* the anchor's identity type and source IP and lies within window_minutes
\* of the anchor (never of the member added last).
C4_AnchoredWindow ==
    \A k \in 1..Len(clCands) :
        LET c == clCands[k]
            e == c.logs[1]
        IN /\ e \notin c.usedBefore
           /\ \A i \in 1..(e - 1) : i \in c.usedBefore
           /\ \A o \in (e + 1)..Len(clLogs) :
                 o \notin c.usedBefore =>
                     (o \in Members(c.logs) <=> (SameKey(o, e) /\ WithinWindow(o, e)))
           /\ Members(c.logs) \cap c.usedBefore = {}

\* C4 witness: a group left out an event that is within the window of one
\* of its members but farther than the window from its anchor
C4_Witness ==
    \E k \in 1..Len(clCands) :
        LET c == clCands[k]
        IN \E o \in LogIndices \ (Members(c.logs) \cup c.usedBefore) :
              /\ o > c.logs[1]
              /\ SameKey(o, c.logs[1])
              /\ ~WithinWindow(o, c.logs[1])
              /\ \E m \in Members(c.logs) : WithinWindow(o, m)

\* the groups built that reach min_group_size, in the order they were built
LargeCands == SelectSeq(clCands, LAMBDA c : Len(c.logs) >= clMin)

\* an event with no other event of its identity type and IP within the window
Lonely(i) == \A j \in LogIndices \ {i} : ~(SameKey(i, j) /\ WithinWindow(i, j))

InSomeCluster(i) == \E g \in 1..Len(clGroups) : i \in Members(clGroups[g].logs)

ReturnsLargeCands ==
    /\ Len(clGroups) = Len(LargeCands)
    /\ \A g \in 1..Len(clGroups) : clGroups[g].logs = LargeCands[g].logs
    /\ \A g \in 1..Len(clGroups) : Len(clGroups[g].logs) >= clMin
    /\ \A g, h \in 1..Len(clGroups) :
          g < h => clGroups[g].start_time <= clGroups[h].start_time

\* C5 as stated: the clusters returned are exactly the groups of size >=
\* min_group_size, ascending in anchor timestamp, and an event with no
\* partner within the window is in no cluster.
C5_Original ==
    clPhase = "returned" =>
        /\ ReturnsLargeCands
        /\ \A i \in LogIndices : Lonely(i) => ~InSomeCluster(i)

\* C5 amended: as C5, the last part for min_group_size >= 2 only (with
\* min_group_size 1 an event without partner is a cluster of its own).
C5_ReturnsLargeGroups ==
    clPhase = "returned" =>
        /\ ReturnsLargeCands
        /\ clMin >= 2 => \A i \in LogIndices : Lonely(i) => ~InSomeCluster(i)

\* C5 witness: events at 0, 1, 2 and 50 minutes, one identity and IP,
\* window 10, min size 3: one cluster of the first three
C5_Witness ==
    /\ clPhase = "returned"
    /\ clWindow = 10 /\ clMin = 3
    /\ Len(clLogs) = 4
    /\ \A i \in LogIndices : SameKey(i, 1)
    /\ clLogs[1].ts = 0 /\ clLogs[2].ts = 60 /\ clLogs[3].ts = 120 /\ clLogs[4].ts = 3000
    /\ Len(clGroups) = 1
    /\ clGroups[1].logs = <<1, 2, 3>>
    /\ Lonely(4) /\ ~InSomeCluster(4)

\* the groups built that were dropped as undersized
Dropped == {k \in 1..Len(clCands) : Len(clCands[k].logs) < clMin}

\* C6: the members of a dropped group stay used: none anchors or joins a
\* later group and none is in a returned cluster.
C6_DroppedStayUsed ==
    \A k \in Dropped : \A m \in Members(clCands[k].logs) :
        /\ m \in clUsed
        /\ \A k2 \in 1..Len(clCands) : k2 # k => m \notin Members(clCands[k2].logs)
        /\ ~InSomeCluster(m)

\* C6 witness: the request has returned, and an event absorbed into a
\* dropped group has min_group_size - 1 later events of its key within its
\* own window that are in no cluster either
C6_Witness ==
    /\ clPhase = "returned"
    /\ \E k \in Dropped : \E m \in Members(clCands[k].logs) :
          /\ m # clCands[k].logs[1]
          /\ Cardinality({j \in LogIndices :
                 /\ j > m /\ SameKey(j, m) /\ WithinWindow(j, m)
                 /\ j \notin Members(clCands[k].logs)
                 /\ ~InSomeCluster(j)}) >= clMin - 1

\* the reason of C20 for a group, as a relation: span in seconds between
\* the first and the last member, the identities and the IPs of the members
ReasonFits(group, reason) ==
    LET span == clLogs[group[Len(group)]].ts - clLogs[group[1]].ts
        ids == {clLogs[group[k]].type : k \in 1..Len(group)}
        ips == {clLogs[group[k]].ip : k \in 1..Len(group)}
        long == span > 2 * 60
        one(S) == Cardinality(S) = 1
    IN /\ reason = "rapid_activity" <=> ~long
       /\ reason = "same_user_same_ip" <=> (long /\ one(ids) /\ one(ips))
       /\ reason = "same_user_multiple_ips" <=> (long /\ one(ids) /\ ~one(ips))
       /\ reason = "multiple_users_same_ip" <=> (long /\ ~one(ids) /\ one(ips))
       /\ reason = "activity_cluster" <=> (long /\ ~one(ids) /\ ~one(ips))

\* C20: the reason of a cluster is the first match of: span <= 2 minutes,
\* rapid activity; one identity and one IP; one identity, several IPs; one
\* IP, several identities; else activity cluster. Checked for the clusters
\* returned and for every pair and triple of the fetched logs as a group.
C20_ReasonFirstMatch ==
    /\ \A g \in 1..Len(clGroups) :
          ReasonFits(clGroups[g].logs, clGroups[g].main_reason)
    /\ \A i, j \in LogIndices :
          i < j => ReasonFits(<<i, j>>, MainReason(<<i, j>>))
    /\ \A i, j, k \in LogIndices :
          (i < j /\ j < k) => ReasonFits(<<i, j, k>>, MainReason(<<i, j, k>>))

\* C20 witness: a returned cluster of three events within one minute has
\* the rapid-activity reason
C20_Witness ==
    /\ clPhase = "returned"
    /\ \E g \in 1..Len(clGroups) :
          /\ Len(clGroups[g].logs) = 3
          /\ clGroups[g].end_time - clGroups[g].start_time = 60
          /\ clGroups[g].main_reason = "rapid_activity"

---------------------------------------------------------------------------
(* Claims about scoring and classification.                                *)

\* the canonical five levels of a score
Canonical(score, level) ==
    /\ level = "CRITICAL" <=> score >= 80
    /\ level = "HIGH" <=> (60 <= score /\ score <= 79)
    /\ level = "MEDIUM" <=> (40 <= score /\ score <= 59)
    /\ level = "LOW" <=> (20 <= score /\ score <= 39)
    /\ level = "SAFE" <=> score <= 19

\* the three levels of the first prototype
ThreeLevels(score, level) ==
    /\ level = "HIGH" <=> score >= 80
    /\ level = "MEDIUM" <=> (50 <= score /\ score <= 79)
    /\ level = "LOW" <=> score <= 49

\* C7 as stated: on every scoring path the risk level of a score in 0..100
\* is the canonical one.
C7_Original ==
    (scPhase = "done" /\ scOut.risk_score \in 0..100) =>
        Canonical(scOut.risk_score, scOut.risk_level)

\* C7 amended: evaluate_log gives every score in 0..100 its canonical level;
\* the first prototype's model_evaluate gives HIGH from 80, MEDIUM from 50 to
\* 79 and LOW below 50.
C7_LevelsByPath ==
    /\ \A score \in 0..100 : Canonical(score, RiskLevel(score))
    /\ (scPhase = "done" /\ scIn.path = "ensemble" /\ scOut.risk_score \in 0..100) =>
           Canonical(scOut.risk_score, scOut.risk_level)
    /\ (scPhase = "done" /\ scIn.path = "prototype") =>
           /\ scOut.risk_score \in 0..100
           /\ ThreeLevels(scOut.risk_score, scOut.risk_level)

\* C7 witness: evaluate_log has classified a score between 60 and 79
C7_Witness ==
    /\ scPhase = "done" /\ scIn.path = "ensemble"
    /\ scOut.risk_score \in 60..79
    /\ scOut.risk_level = "HIGH"

\* C8: the ensemble score is an integer in [0, 100] for every combination
\* of sub-scores.
C8_ScoreInRange ==
    (scPhase = "done" /\ scIn.path = "ensemble") => scOut.risk_score \in 0..100

\* the reference of C9, from the three sub-scores
RefBlend(a, b, c) ==
    Frac(5 * a.n * b.d * c.d + 3 * b.n * a.d * c.d + 2 * c.n * a.d * b.d,
         10 * a.d * b.d * c.d)
RefShaped(f) ==
    IF f.n < 20 * f.d THEN Frac(f.n, 2 * f.d)
    ELSE IF f.n > 80 * f.d THEN Frac(6 * f.n, 5 * f.d)
    ELSE f
RefClamped(f) ==
    IF f.n < 0 THEN Whole(0) ELSE IF f.n > 100 * f.d THEN Whole(100) ELSE f
\* k is an integer nearest to f
Nearest(k, f) == 2 * Abs(k * f.d - f.n) <= f.d

\* C9: the score is the blend 0.5 A + 0.3 B + 0.2 C, halved below 20,
\* times 1.2 above 80, clamped to [0, 100] and rounded to the nearest integer.
C9_MatchesReference ==
    (scPhase = "done" /\ scIn.path = "ensemble") =>
        Nearest(scOut.risk_score,
                RefClamped(RefShaped(RefBlend(scOut.iso_risk, scOut.rf_risk, scOut.ae_risk))))

\* the ladder of C10 for signal x over table th
RefLadder(x, th) ==
    IF x >= th.threshold_99_9 THEN Whole(100)
    ELSE IF x >= th.threshold_99 THEN Whole(80)
    ELSE IF x >= th.threshold_95 THEN Whole(40)
    ELSE IF x <= th.floor THEN Whole(0)
    ELSE Frac(30 * (x - th.floor), th.threshold_95 - th.floor)

Same(a, b) == a.n * b.d = b.n * a.d

Signals == 0..MaxSignal

\* C10: over a table with floor < p95 <= p99 <= p99.9 the ladder gives 100
\* from p99.9, 80 from p99, 40 from p95 and max(0, 30 (s - floor) / (p95 -
\* floor)) below; the sub-score is in [0, 100], below 30 when interpolated,
\* and non-decreasing in s. For the isolation forest and the autoencoder.
C10_Ladder ==
    scIn.path = "ensemble" =>
        LET it == scIn.iso_thresholds
            at == scIn.ae_thresholds
        IN /\ \A x \in Signals :
                 /\ Same(IsoRisk(x, it), RefLadder(x, it))
                 /\ Same(AeRisk(x, at), RefLadder(x, at))
                 /\ LessEq(Whole(0), IsoRisk(x, it)) /\ LessEq(IsoRisk(x, it), Whole(100))
                 /\ LessEq(Whole(0), AeRisk(x, at)) /\ LessEq(AeRisk(x, at), Whole(100))
                 /\ x < it.threshold_95 => Less(IsoRisk(x, it), Whole(30))
                 /\ x < at.threshold_95 => Less(AeRisk(x, at), Whole(30))
           /\ \A x, y \in Signals :
                 x <= y => /\ LessEq(IsoRisk(x, it), IsoRisk(y, it))
                           /\ LessEq(AeRisk(x, at), AeRisk(y, at))
           /\ scPhase = "done" =>
                 /\ Same(scOut.iso_risk, RefLadder(-scIn.iso_pred_raw, it))
                 /\ Same(scOut.ae_risk, RefLadder(scIn.ae_error, at))

\* C10 witness: a scored log whose isolation-forest sub-score is
\* interpolated strictly between 0 and 30, its signal below the table's
\* floor for the autoencoder
C10_Witness ==
    /\ scPhase = "done" /\ scIn.path = "ensemble"
    /\ -scIn.iso_pred_raw < scIn.iso_thresholds.threshold_95
    /\ Less(Whole(0), scOut.iso_risk) /\ Less(scOut.iso_risk, Whole(30))
    /\ scIn.ae_error < scIn.ae_thresholds.floor
    /\ Same(scOut.ae_risk, Whole(0))

---------------------------------------------------------------------------
(* Claims about the first prototype's scoring and the features.           *)

\* the paths of the first prototype that answered 200
PrototypeDone == scPhase = "done" /\ scIn.path = "prototype"

\* the priority table of C15, the first matching row deciding
FirstMatchBase(root, sensitive, error) ==
    IF root /\ sensitive THEN 40
    ELSE IF root /\ error THEN 35
    ELSE IF sensitive /\ error THEN 30
    ELSE IF root THEN 25
    ELSE IF sensitive THEN 20
    ELSE IF error THEN 15
    ELSE 0

\* C15: the fallback base score is the first matching row of root and
\* sensitive -> 40, root and error -> 35, sensitive and error -> 30, root
\* only -> 25, sensitive only -> 20, error only -> 15, none -> 0, for all 8
\* combinations of the flags.
C15_FirstMatchTable ==
    (PrototypeDone /\ ~scOut.model_loaded) =>
        scOut.base_score = FirstMatchBase(scOut.isRootUser = 1,
                                          scOut.is_sensitive_action = 1,
                                          scOut.has_error = 1)

\* the table agrees with the code on the 7 combinations other than root,
\* sensitive and error together
C15_ExceptAllThree ==
    \A root, sensitive, error \in BOOLEAN :
        ~(root /\ sensitive /\ error) =>
            FallbackBase(root, IF sensitive THEN 1 ELSE 0, IF error THEN 1 ELSE 0)
                = FirstMatchBase(root, sensitive, error)

Clamp(x) == Max(0, Min(100, x))

\* the error code after the replacement of an absent one
FilledErrorCode == IF scIn.errorCode = NaN THEN NoError ELSE scIn.errorCode

\* the bonuses the log of the request earns: root identity, sensitive
\* action, error present
EarnedBonus ==
    (IF scIn.userIdentitytype = "Root" THEN 10 ELSE 0)
    + IsSensitiveAction(scIn.eventName) * 10
    + (IF FilledErrorCode # NoError THEN 10 ELSE 0)

\* C16 as stated: on every path the final score includes the three bonuses
\* and is clamped to [0, 100] before the level is derived.
C16_Original ==
    scPhase = "done" =>
        LET before == IF scIn.path = "ensemble"
                      THEN RoundedScore(scOut.iso_risk, scOut.rf_risk, scOut.ae_risk)
                      ELSE scOut.base_score + scOut.rule_score
        IN /\ scOut.risk_score = Clamp(before + EarnedBonus)
           /\ scOut.risk_score \in 0..100

\* C16 amended: the first prototype's model_evaluate, with the model and
\* in fallback, adds 10 for each of its flags isRootUser,
\* is_sensitive_action and has_error, clamps the total to at most 100 and
\* derives the level from the clamped total; evaluate_log adds no bonus, its
\* score is the rounded ensemble score and the level is derived from it.
C16_BonusesByPath ==
    /\ PrototypeDone =>
          /\ scOut.isRootUser = (IF scIn.userIdentitytype = "Root" THEN 1 ELSE 0)
          /\ scOut.is_sensitive_action = IsSensitiveAction(scIn.eventName)
          /\ scOut.risk_score =
                 Min(100, scOut.base_score + scOut.rule_score
                          + 10 * scOut.isRootUser + 10 * scOut.is_sensitive_action
                          + 10 * scOut.has_error)
          /\ scOut.risk_score \in 0..100
          /\ ThreeLevels(scOut.risk_score, scOut.risk_level)
    /\ (scPhase = "done" /\ scIn.path = "ensemble") =>
          /\ scOut.risk_score =
                 RoundedScore(scOut.iso_risk, scOut.rf_risk, scOut.ae_risk)
          /\ scOut.risk_level = RiskLevel(scOut.risk_score)

\* C16 witness: the prototype scored a log that has all three flags, with
\* the model and in fallback
C16_Witness ==
    /\ PrototypeDone
    /\ scOut.isRootUser = 1 /\ scOut.is_sensitive_action = 1 /\ scOut.has_error = 1
    /\ scOut.bonus = 30
    /\ scOut.risk_score = scOut.base_score + scOut.rule_score + 30

\* C17: has_error is derived from the error code: an absent code becomes
\* NoError, then has_error = 0 iff the code equals NoError, whatever the
\* error message.
C17_HasErrorFromCode ==
    PrototypeDone =>
        scOut.has_error = (IF FilledErrorCode = NoError THEN 0 ELSE 1)

\* what the prototype computes: has_error follows the error message alone
C17_FromMessage ==
    PrototypeDone =>
        scOut.has_error = (IF scIn.errorMessage = NoError THEN 0 ELSE 1)

\* the integer value of a part that is a decimal number, 0 for any other
\* or absent part
OctetOf(parts, i) ==
    IF Len(parts) >= i /\ parts[i].kind = "decimal" THEN parts[i].val ELSE 0

\* C18: octet extraction is total. For every record the two octets are the
\* integer values of the first two parts of the source IP where numeric and
\* 0 where non-numeric or absent, nothing is raised, a value above 255 is
\* kept and makes the first-octet rule flag fire.
C18_OctetsTotal ==
    scPhase # "input" =>
        /\ scPhase = "done"
        /\ scOut.status = 200
        /\ scOut.ip_first_octet = OctetOf(scIn.sourceIPAddress, 1)
        /\ scOut.ip_second_octet = OctetOf(scIn.sourceIPAddress, 2)
        /\ (scIn.path = "prototype" /\ OctetOf(scIn.sourceIPAddress, 1) > 255) =>
               scOut.rule_flags = 1

\* the claim holds for the addresses made of two or more decimal parts
C18_DecimalAddresses ==
    (/\ Len(scIn.sourceIPAddress) >= 2
     /\ \A i \in 1..2 : scIn.sourceIPAddress[i].kind = "decimal") =>
        C18_OctetsTotal

---------------------------------------------------------------------------
(* Claims about the eviction pass, the counter and the frame of a call.    *)

\* the timestamp of the n-th newest record of recs (of the oldest one when
\* recs holds fewer than n records)
NthNewestTs(recs, n) ==
    LET m == Min(n, Cardinality(recs))
    IN CHOOSE c \in {r.ts : r \in recs} :
          /\ Cardinality({r \in recs : r.ts > c}) < m
          /\ Cardinality({r \in recs : r.ts >= c}) >= m

\* C21: an eviction pass starts only from an increment whose result exceeds
\* cap; its cutoff is the timestamp of the cap-th newest record the
\* identity holds when the pass reads them; its delete removes exactly the
\* identity's records strictly older than that cutoff (records at the
\* cutoff stay); it then sets the counter to exactly cap. Nothing else
\* deletes a record.
C21_EvictionPass ==
    [][/\ (\A t \in Threads : pc[t] # "delete") =>
             \A j \in Kinds : store[j] \subseteq store'[j]
       /\ \A t \in Threads :
          LET u == local[t].user
              k == local[t].kind
              recs == UserRecs(k, u)
          IN /\ (pc[t] # "snapshot" /\ pc'[t] = "snapshot") =>
                    (pc[t] = "inc" /\ counters'[u][k] > Cap(k))
             /\ (pc[t] = "snapshot" /\ pc'[t] = "delete") =>
                    local'[t].cutoff = NthNewestTs(recs, Cap(k))
             /\ (pc[t] = "delete" /\ pc'[t] = "reset") =>
                    store'[k] = store[k] \ {r \in recs : r.ts < local[t].cutoff}
             /\ (pc[t] = "reset" /\ pc'[t] = "return") =>
                    counters'[u][k] = Cap(k)]_vars

\* C21 witness: a call ran an eviction pass that deleted a record and kept
\* two records whose timestamp equals the cutoff; the counter is cap
C21_Witness ==
    /\ Idle
    /\ local[1].passed
    /\ \E k \in Kinds :
          /\ KindsUsed = {k}
          /\ counters["u1"][k] = Cap(k)
          /\ \E e \in evictions : \E r, q \in UserRecs(k, "u1") :
                r # q /\ r.ts = e.cutoff /\ q.ts = e.cutoff

\* every log record identity u1 has held: the stored ones and the evicted
EverHeld ==
    {[id |-> r.id, ts |-> r.ts] : r \in UserRecs("log", "u1")} \cup
    {[id |-> e.id, ts |-> e.ts] : e \in {x \in evictions : x.kind = "log"}}

DistinctTimestamps == \A a, b \in EverHeld : a.id # b.id => a.ts # b.ts

\* C22: concurrent add_log calls for one identity whose records have
\* pairwise distinct timestamps, the counter field present or missing at the
\* start: once every call has returned the identity holds at most cap
\* records, and no call has returned False.
C22_SelfCorrecting ==
    (Idle /\ DistinctTimestamps) =>
        /\ Cardinality(UserRecs("log", "u1")) <= LogCap
        /\ \A t \in Threads : local[t].result # "False"

\* C23: a sequential call that finds the counter field missing and k records
\* stored, and triggers no eviction, leaves the counter at k + 1, the number
\* of records the identity then holds.
C23_LazyInitExact ==
    (Idle /\ start.missing /\ Len(inserted) = 1 /\ ~local[1].passed) =>
        \A k \in KindsUsed :
            /\ counters["u1"][k] = start.n + 1
            /\ counters["u1"][k] = Cardinality(UserRecs(k, "u1"))

\* the call of thread t has applied its $inc (every thread makes one call)
Applied(t) ==
    pc[t] \in {"snapshot", "delete", "reset", "return"} \/ local[t].result = "True"

NoPass == \A t \in Threads : ~local[t].passed

\* C24: concurrent add_log calls for one identity that trigger no eviction
\* leave the counter at its correct starting value (the number of records
\* the identity held) plus the number of calls; and the lazy-initialisation
\* $set of one call never replaces a counter another call has incremented.
C24_NoLostIncrement ==
    /\ []((Idle /\ NoPass /\ ncalls >= 1) =>
            counters["u1"]["log"] = start.n + ncalls)
    /\ [][\A t \in Threads :
             (pc[t] = "set" /\ pc'[t] = "inc") =>
                 \A o \in Threads \ {t} : ~Applied(o)]_vars

\* the second conjunct of C24 alone
C24_NoOverwrite ==
    [][\A t \in Threads :
          (pc[t] = "set" /\ pc'[t] = "inc") =>
              \A o \in Threads \ {t} : ~Applied(o)]_vars

\* the first conjunct of C24 for a counter field present at the start
C24_PresentCounter ==
    (Idle /\ NoPass /\ ncalls >= 1 /\ ~start.missing) =>
        counters["u1"]["log"] = start.n + ncalls

---------------------------------------------------------------------------
(* Claims about the clusters returned.                                     *)

Clusters == {clGroups[a] : a \in 1..Len(clGroups)}

MemberTs(g) == {clLogs[i].ts : i \in Members(g.logs)}

\* C25: no stored event is a member of more than one returned cluster.
C25_Disjoint ==
    \A a, b \in 1..Len(clGroups) :
        a # b => Members(clGroups[a].logs) \cap Members(clGroups[b].logs) = {}

\* C25 witness: two clusters of the same identity type and source IP have
\* been returned, one of them with several members
C25_Witness ==
    /\ clPhase = "returned"
    /\ \E a, b \in 1..Len(clGroups) :
          /\ a # b
          /\ SameKey(clGroups[a].logs[1], clGroups[b].logs[1])
          /\ Len(clGroups[a].logs) >= 2

\* C26: start_time of a returned cluster is its anchor's timestamp and the
\* minimum over its members, end_time the maximum over its members,
\* start_time <= end_time and end_time - start_time is at most the window.
C26_TimeBounds ==
    \A g \in Clusters :
        /\ g.start_time = clLogs[g.logs[1]].ts
        /\ g.start_time \in MemberTs(g)
        /\ g.end_time \in MemberTs(g)
        /\ \A x \in MemberTs(g) : g.start_time <= x /\ x <= g.end_time
        /\ g.start_time <= g.end_time
        /\ g.end_time - g.start_time <= clWindow * 60

\* C26 witness: a returned cluster whose span is exactly the window, with a
\* member strictly between its first and last timestamps
C26_Witness ==
    /\ clPhase = "returned"
    /\ \E g \in Clusters :
          /\ g.end_time - g.start_time = clWindow * 60
          /\ \E x \in MemberTs(g) : g.start_time < x /\ x < g.end_time

\* C27: every returned cluster has exactly one identity type and one source
\* IP; its reason is the rapid-activity text when its span is at most two
\* minutes and the same-identity-same-IP text otherwise, never another one.
C27_OneKeyTwoReasons ==
    \A g \in Clusters :
        /\ Cardinality({clLogs[i].type : i \in Members(g.logs)}) = 1
        /\ Cardinality({clLogs[i].ip : i \in Members(g.logs)}) = 1
        /\ g.main_reason \in {"rapid_activity", "same_user_same_ip"}
        /\ g.main_reason = "rapid_activity" <=> g.end_time - g.start_time <= 2 * 60

\* C27 witness: a returned cluster spanning more than two minutes, while an
\* event of another source IP and one of another identity type lie inside
\* its window
C27_Witness ==
    /\ clPhase = "returned"
    /\ \E g \in Clusters :
          /\ g.end_time - g.start_time > 2 * 60
          /\ g.main_reason = "same_user_same_ip"
          /\ \E j \in 1..Len(clLogs) :
                /\ clLogs[j].ip # g.source_ip
                /\ g.start_time <= clLogs[j].ts /\ clLogs[j].ts <= g.end_time
          /\ \E j \in 1..Len(clLogs) :
                /\ clLogs[j].type # g.user_identity_type
                /\ g.start_time <= clLogs[j].ts /\ clLogs[j].ts <= g.end_time

---------------------------------------------------------------------------
(* Claims about the frame and the failure of a call, and about tickets.    *)

\* the record type of the call thread t makes a step of
CallKind(t) == IF pc[t] = "idle" THEN local'[t].kind ELSE local[t].kind

\* C28: no step of a call for identity u1 deletes or changes a record of
\* identity u2 or changes a counter of u2; and a step of a call for one
\* record type leaves u1's records and counters of the other record types
\* unchanged.
C28_Frame ==
    [][/\ \A k \in Kinds :
             {r \in store'[k] : r.user = "u2"} = {r \in store[k] : r.user = "u2"}
       /\ counters'["u2"] = counters["u2"]
       /\ \A t \in Threads :
             pc'[t] # pc[t] =>
                 \A k \in Kinds \ {CallKind(t)} :
                     /\ store'[k] = store[k]
                     /\ counters'["u1"][k] = counters["u1"][k]]_vars

\* C28 witness: a call for u1 has evicted a record of u1 that is no older
\* than the record u2 holds of the same type, u2's record is still stored,
\* and u1 holds records of the other types
C28_Witness ==
    /\ Idle
    /\ \E e \in evictions :
          /\ \E r \in UserRecs(e.kind, "u2") : r.ts <= e.ts
          /\ \A k \in Kinds \ {e.kind} : UserRecs(k, "u1") # {}

\* C29: whenever add_log has returned False the identity's stored records
\* and its counter are what they were when the call was made.
C29_AllOrNothing ==
    \A t \in Threads :
        (pc[t] = "idle" /\ local[t].result = "False") =>
            /\ UserRecs(local[t].kind, local[t].user) = local[t].before.recs
            /\ counters[local[t].user][local[t].kind] = local[t].before.counter

PairwiseDistinct(seq) ==
    \A i, j \in 1..Len(seq) : i # j => seq[i] # seq[j]

\* C30: sequential create_ticket and delete_ticket calls for a user who
\* starts with ticket_count = 0 and no tickets, the created_at values being
\* pairwise distinct: after every call ticket_count equals the number of
\* tickets stored for the user and is at most the cap.
C30_TicketCountExact ==
    (Idle /\ StartedEmpty /\ PairwiseDistinct(InsertedTs)) =>
        /\ counters["u1"]["ticket"] = Cardinality(UserRecs("ticket", "u1"))
        /\ counters["u1"]["ticket"] <= TicketCap

\* C30 witness: tickets have been created past the cap, one was evicted, one
\* was deleted by delete_ticket, and a ticket is left
C30_Witness ==
    /\ Idle /\ StartedEmpty /\ PairwiseDistinct(InsertedTs)
    /\ evictions # {}
    /\ \E i \in 1..Len(inserted) :
          /\ inserted[i].doc \notin store["ticket"]
          /\ inserted[i].doc.id \notin {e.id : e \in evictions}
    /\ counters["u1"]["ticket"] = 1
    /\ Cardinality(UserRecs("ticket", "u1")) = 1

=============================================================================
